---------------------------- MODULE Spec2Model ----------------------------
(***************************************************************************)
(* Model of the Go package dmesg (src/pkg/dmesg/dmesg.go): the record      *)
(* decoder parseData and the read loop fetch over /dev/kmsg.               *)
(*                                                                         *)
(* A byte is a one-character string; a []byte or string is a sequence of   *)
(* bytes.  Go indexes from 0, TLA+ sequences from 1: data[i] in the source *)
(* is data[i + 1] here, and Slice(s, lo, hi) is the source's s[lo:hi].     *)
(* A uint64 is four 16-bit limbs, most significant first; an int64 is a    *)
(* sign and a uint64 magnitude.                                            *)
(***************************************************************************)
EXTENDS Integers, Sequences, FiniteSets, TLC

\* ------------------------------------------------------------------------
\* Bytes and slices
\* ------------------------------------------------------------------------

NUL == "\\0"   \* the zero byte of a fresh make([]byte, n)
NL  == "\n"

DigitChars == {"0", "1", "2", "3", "4", "5", "6", "7", "8", "9"}

\* c - '0' for a decimal digit c
DigitVal(c) ==
    CASE c = "0" -> 0 [] c = "1" -> 1 [] c = "2" -> 2 [] c = "3" -> 3
      [] c = "4" -> 4 [] c = "5" -> 5 [] c = "6" -> 6 [] c = "7" -> 7
      [] c = "8" -> 8 [] c = "9" -> 9

\* s[lo:hi]
Slice(s, lo, hi) == SubSeq(s, lo + 1, hi)

\* bytes.IndexByte: the index of the first b in s, -1 when there is none
IndexByte(s, b) ==
    IF \E i \in 1..Len(s) : s[i] = b
    THEN (CHOOSE i \in 1..Len(s) : s[i] = b /\ \A j \in 1..(i - 1) : s[j] # b) - 1
    ELSE -1

\* bytes.Split(s, []byte{sep}): the pieces of s between the separators; one
\* (empty) piece for an empty s.
RECURSIVE Split(_, _)
Split(s, sep) ==
    LET i == IndexByte(s, sep)
    IN  IF i = -1 THEN <<s>>
        ELSE <<Slice(s, 0, i)>> \o Split(Slice(s, i + 1, Len(s)), sep)

\* make([]byte, n)
RECURSIVE Zeros(_)
Zeros(n) == IF n <= 0 THEN <<>> ELSE <<NUL>> \o Zeros(n - 1)

\* ------------------------------------------------------------------------
\* 64-bit integers
\* ------------------------------------------------------------------------

LimbBase == 2^16
U64Zero == <<0, 0, 0, 0>>
U64Max  == <<LimbBase - 1, LimbBase - 1, LimbBase - 1, LimbBase - 1>>
\* 1 << 63
U64SignBit == <<LimbBase \div 2, 0, 0, 0>>

\* a < b on uint64
U64Less(a, b) ==
    \E i \in 1..4 : a[i] < b[i] /\ \A j \in 1..(i - 1) : a[j] = b[j]

\* n*10 + d on uint64: the wrapped value and whether it overflowed
U64MulAdd10(n, d) ==
    LET t4 == n[4] * 10 + d
        t3 == n[3] * 10 + (t4 \div LimbBase)
        t2 == n[2] * 10 + (t3 \div LimbBase)
        t1 == n[1] * 10 + (t2 \div LimbBase)
    IN  [val |-> <<t1 % LimbBase, t2 % LimbBase, t3 % LimbBase, t4 % LimbBase>>,
         overflow |-> t1 \div LimbBase # 0]

\* x & y on 16-bit limbs
RECURSIVE And16(_, _, _)
And16(x, y, bits) ==
    IF bits = 0 THEN 0
    ELSE ((x % 2) * (y % 2)) + 2 * And16(x \div 2, y \div 2, bits - 1)

\* a & b on uint64
U64And(a, b) == [i \in 1..4 |-> And16(a[i], b[i], 16)]

\* ^a on uint64
U64Not(a) == [i \in 1..4 |-> (LimbBase - 1) - a[i]]

\* levelMask = uint64(1<<3 - 1)
levelMask == <<0, 0, 0, 2^3 - 1>>

\* strconv.ParseUint(s, 10, 64), its error discarded as the callers do:
\* 0 for the empty string or a non-digit (ErrSyntax), the maximum uint64 once
\* the digits read so far overflow (ErrRange), the value otherwise.
RECURSIVE ParseUintFrom(_, _, _)
ParseUintFrom(s, i, n) ==
    IF i > Len(s) THEN [val |-> n, err |-> "nil"]
    ELSE IF s[i] \notin DigitChars THEN [val |-> U64Zero, err |-> "ErrSyntax"]
    ELSE LET r == U64MulAdd10(n, DigitVal(s[i]))
         IN  IF r.overflow THEN [val |-> U64Max, err |-> "ErrRange"]
             ELSE ParseUintFrom(s, i + 1, r.val)

\* ParseUint giving 0 where the digits overflow
ParseUintZeroOnRange(s) ==
    IF Len(s) = 0 THEN [val |-> U64Zero, err |-> "ErrSyntax"]
    ELSE LET r == ParseUintFrom(s, 1, U64Zero)
         IN  IF r.err = "ErrRange" THEN [val |-> U64Zero, err |-> "ErrRange"] ELSE r

ParseUint(s) ==
    IF Len(s) = 0 THEN [val |-> U64Zero, err |-> "ErrSyntax"]
    ELSE ParseUintFrom(s, 1, U64Zero)

\* strconv.ParseInt(s, 10, 64), its error discarded as the caller does
ParseInt(s) ==
    IF Len(s) = 0 THEN [neg |-> FALSE, mag |-> U64Zero]
    ELSE LET neg  == s[1] = "-"
             rest == IF s[1] \in {"+", "-"} THEN Slice(s, 1, Len(s)) ELSE s
             un   == ParseUint(rest)
         IN  IF un.err = "ErrSyntax" THEN [neg |-> FALSE, mag |-> U64Zero]
             ELSE IF ~neg /\ ~U64Less(un.val, U64SignBit)
                  THEN [neg |-> FALSE, mag |-> <<LimbBase \div 2 - 1, LimbBase - 1, LimbBase - 1, LimbBase - 1>>]
             ELSE IF neg /\ U64Less(U64SignBit, un.val)
                  THEN [neg |-> TRUE, mag |-> U64SignBit]
             ELSE [neg |-> neg /\ un.val # U64Zero, mag |-> un.val]

\* ------------------------------------------------------------------------
\* parseData
\* ------------------------------------------------------------------------

\* A map[string]string is a function from its keys; EmptyMap is the map with
\* no entry (a nil map and make(map[string]string, 2) alike).
EmptyMap == [k \in {} |-> <<>>]

\* m[k] = v
MapSet(m, k, v) == [x \in (DOMAIN m) \cup {k} |-> IF x = k THEN v ELSE m[x]]

\* Msg{}
ZeroMsg ==
    [Level |-> U64Zero, Facility |-> U64Zero, Seq |-> U64Zero,
     TsUsec |-> [neg |-> FALSE, mag |-> U64Zero], Caller |-> <<>>,
     IsFragment |-> FALSE, Text |-> <<>>, DeviceInfo |-> EmptyMap]

\* What a call of parseData ends in: a *Msg, nil, or a run-time panic
\* (index out of range).
SomeMsg(m) == [kind |-> "msg", msg |-> m]
NilMsg     == [kind |-> "nil"]
Panic      == [kind |-> "panic"]

\* LevelOf with levelMask written 1<<3, the "- 1" forgotten
LevelOfMaskShifted(val) == U64And(val, <<0, 0, 0, 2^3>>)

\* val & levelMask
LevelOf(val) == U64And(val, levelMask)

\* val & (^levelMask)
FacilityOf(val) == U64And(val, U64Not(levelMask))

\* prefix[0] != '-' (the caller has checked that prefix[0] exists)
IsFragmentOf(prefix) == prefix[1] # "-"

\* One pass of the switch over the prefix fields.
PrefixCase(msg, index, prefix) ==
    CASE index = 0 -> [msg EXCEPT !.Level = LevelOf(ParseUint(prefix).val),
                                  !.Facility = FacilityOf(ParseUint(prefix).val)]
      [] index = 1 -> [msg EXCEPT !.Seq = ParseUint(prefix).val]
      [] index = 2 -> [msg EXCEPT !.TsUsec = ParseInt(prefix)]
      [] index = 3 -> [msg EXCEPT !.IsFragment = IsFragmentOf(prefix)]
      [] index = 4 -> [msg EXCEPT !.Caller = prefix]
      [] OTHER     -> msg

\* The loop over bytes.Split(data[:prefixEnd], ","): prefix[0] of an empty
\* field 3 is an index out of range.
RECURSIVE PrefixLoop(_, _, _)
PrefixLoop(msg, fields, index) ==
    IF index >= Len(fields) THEN [panic |-> FALSE, msg |-> msg]
    ELSE IF index = 3 /\ Len(fields[index + 1]) = 0 THEN [panic |-> TRUE, msg |-> msg]
    ELSE PrefixLoop(PrefixCase(msg, index, fields[index + 1]), fields, index + 1)

\* info[0] != ' ': the line is skipped
SkipLine(info) == info[1] # " "

\* SkipKv written len(kv) < 2: a line with several `=` is kept
SkipKvAtLeastTwo(kv) == Len(kv) < 2

\* len(kv) != 2: the line is skipped
SkipKv(kv) == Len(kv) # 2

\* The loop over the device info lines: info[0] of an empty line is an index
\* out of range.
RECURSIVE DeviceInfoLoop(_, _, _)
DeviceInfoLoop(m, deviceInfo, i) ==
    IF i > Len(deviceInfo) THEN [panic |-> FALSE, map |-> m]
    ELSE LET info == deviceInfo[i]
             kv   == Split(info, "=")
         IN  IF Len(info) = 0 THEN [panic |-> TRUE, map |-> m]
             ELSE IF SkipLine(info) THEN DeviceInfoLoop(m, deviceInfo, i + 1)
             ELSE IF SkipKv(kv) THEN DeviceInfoLoop(m, deviceInfo, i + 1)
             ELSE DeviceInfoLoop(MapSet(m, kv[1], kv[2]), deviceInfo, i + 1)

\* What parseData returns for a record whose first newline is its last byte
\* (textEnd == dataLen-1), msg being the Msg decoded so far.
TextOnlyResult(msg) == NilMsg

parseData(data) ==
    LET dataLen   == Len(data)
        prefixEnd == IndexByte(data, ";")
        hdr       == PrefixLoop(ZeroMsg, Split(Slice(data, 0, prefixEnd), ","), 0)
        textEnd   == IndexByte(data, NL)
        withText  == [hdr.msg EXCEPT !.Text = Slice(data, prefixEnd + 1, textEnd)]
        info      == DeviceInfoLoop(EmptyMap,
                                    Split(Slice(data, textEnd + 1, dataLen - 1), NL), 1)
    IN  IF prefixEnd = -1 THEN NilMsg
        ELSE IF hdr.panic THEN Panic
        ELSE IF textEnd = -1 \/ textEnd <= prefixEnd THEN NilMsg
        ELSE IF textEnd = dataLen - 1 THEN TextOnlyResult(withText)
        ELSE IF info.panic THEN Panic
        ELSE SomeMsg([withText EXCEPT !.DeviceInfo = info.map])

\* ------------------------------------------------------------------------
\* fetch: state
\* ------------------------------------------------------------------------

\* Two fetch calls run side by side, each on its own handle of /dev/kmsg:
\* call 1 is DmesgWithBufSize (fetchRaw = false), call 2 RawDmesgWithBufSize.
Calls == {1, 2}

VARIABLES
    kmsg,          \* the records in the kernel ring buffer, oldest first
    fetchRaw,      \* per call: the fetchRaw argument
    bufSize,       \* per call: the bufSize argument
    pc,            \* per call: where the call stands
    file,          \* per call: "none", "open" or "closed"
    closes,        \* per call: how often file.Close() has run
    pos,           \* per call: how many records the handle has moved past
    d,             \* per call: the dmesg value, [raw, msg]
    syscallError,  \* per call: the variable of that name
    err,           \* per call: the error the call returns
    reads,         \* per call: the outcome of every syscall.Read so far
    data,          \* decoder run: the bytes given to parseData
    out,           \* decoder run: what parseData ended in
    dpc,           \* decoder run: "idle", "input" or "done"
    dm,            \* Dmesg object: the fields [num, msgTruncated, bufSize, msg]
    num,           \* Dmesg object: the local num of the read callback
    opc,           \* Dmesg object: where NewDmesg stands, "built" once returned
    ofile,         \* Dmesg object: "none", "open" or "closed"
    opos,          \* Dmesg object: how many records the handle has moved past
    oreads,        \* Dmesg object: the outcome of every syscall.Read so far
    ret            \* Dmesg object: what the last method call returned

fetchVars == <<kmsg, fetchRaw, bufSize, pc, file, closes, pos, d, syscallError, err, reads>>
decVars   == <<data, out, dpc>>
objVars   == <<dm, num, opc, ofile, opos, oreads, ret>>
vars      == <<kmsg, fetchRaw, bufSize, pc, file, closes, pos, d, syscallError, err, reads,
               data, out, dpc, dm, num, opc, ofile, opos, oreads, ret>>

\* An error value is "nil" or the name of an errno.
OpenErrnos  == {"EACCES"}
ConnErrnos  == {"ErrInvalid"}
FatalErrnos == {"EPIPE", "EIO"}

\* ------------------------------------------------------------------------
\* The device
\* ------------------------------------------------------------------------

\* syscall.Read(fd, buf) on a handle that has moved past p records, buf
\* being a fresh make([]byte, size): the next record copied to the front of
\* buf; EINVAL, nothing copied and the record skipped, when it does not fit;
\* EAGAIN when there is no further record; or any other errno.
RegularRead(log, p, size) ==
    IF p >= Len(log)
    THEN [res |-> "EAGAIN", n |-> 0, buf |-> Zeros(size), adv |-> 0]
    ELSE IF Len(log[p + 1]) > size
    THEN [res |-> "EINVAL", n |-> 0, buf |-> Zeros(size), adv |-> 1]
    ELSE [res |-> "nil", n |-> Len(log[p + 1]),
          buf |-> log[p + 1] \o Zeros(size - Len(log[p + 1])), adv |-> 1]

ReadOutcomes(log, p, size) ==
    {RegularRead(log, p, size)} \cup
    {[res |-> e, n |-> 0, buf |-> Zeros(size), adv |-> 0] : e \in FatalErrnos}

\* ------------------------------------------------------------------------
\* fetch: steps
\* ------------------------------------------------------------------------

\* dmesg{}
ZeroDmesg == [raw |-> <<>>, msg |-> <<>>]

\* os.OpenFile("/dev/kmsg", O_RDONLY|O_NONBLOCK, 0), and the return on its error
OpenOk(c) ==
    /\ pc[c] = "open"
    /\ file' = [file EXCEPT ![c] = "open"]
    /\ pc' = [pc EXCEPT ![c] = "conn"]
    /\ UNCHANGED <<kmsg, fetchRaw, bufSize, closes, pos, d, syscallError, err, reads, decVars, objVars>>

\* OpenFail returning d, nil: the error of os.OpenFile is dropped
OpenFailNilErr(c) ==
    /\ pc[c] = "open"
    /\ pc' = [pc EXCEPT ![c] = "done"]
    /\ UNCHANGED <<kmsg, fetchRaw, bufSize, file, closes, pos, d, syscallError, err, reads, decVars, objVars>>

OpenFail(c) ==
    /\ pc[c] = "open"
    /\ \E e \in OpenErrnos : err' = [err EXCEPT ![c] = e]
    /\ pc' = [pc EXCEPT ![c] = "done"]
    /\ UNCHANGED <<kmsg, fetchRaw, bufSize, file, closes, pos, d, syscallError, reads, decVars, objVars>>

\* file.SyscallConn(); on success d.raw or d.msg is made; on its error the
\* call returns and the deferred file.Close() runs
\* ConnOk with d a package-level variable: the call goes on from what the
\* other call has accumulated
ConnOkSharedDmesg(c) ==
    /\ pc[c] = "conn"
    /\ d' = [d EXCEPT ![c] = [raw |-> d[1].raw \o d[2].raw, msg |-> d[1].msg \o d[2].msg]]
    /\ syscallError' = [syscallError EXCEPT ![c] = "nil"]
    /\ pc' = [pc EXCEPT ![c] = "read"]
    /\ UNCHANGED <<kmsg, fetchRaw, bufSize, file, closes, pos, err, reads, decVars, objVars>>

ConnOk(c) ==
    /\ pc[c] = "conn"
    /\ d' = [d EXCEPT ![c] = ZeroDmesg]
    /\ syscallError' = [syscallError EXCEPT ![c] = "nil"]
    /\ pc' = [pc EXCEPT ![c] = "read"]
    /\ UNCHANGED <<kmsg, fetchRaw, bufSize, file, closes, pos, err, reads, decVars, objVars>>

\* ConnFail without the deferred file.Close(): the defer is placed after
\* the SyscallConn error check
ConnFailNoClose(c) ==
    /\ pc[c] = "conn"
    /\ \E e \in ConnErrnos : err' = [err EXCEPT ![c] = e]
    /\ pc' = [pc EXCEPT ![c] = "done"]
    /\ UNCHANGED <<kmsg, fetchRaw, bufSize, file, closes, pos, d, syscallError, reads, decVars, objVars>>

ConnFail(c) ==
    /\ pc[c] = "conn"
    /\ \E e \in ConnErrnos : err' = [err EXCEPT ![c] = e]
    /\ file' = [file EXCEPT ![c] = "closed"]
    /\ closes' = [closes EXCEPT ![c] = @ + 1]
    /\ pc' = [pc EXCEPT ![c] = "done"]
    /\ UNCHANGED <<kmsg, fetchRaw, bufSize, pos, d, syscallError, reads, decVars, objVars>>

\* if err != nil { syscallError = err ... }
SyscallErrorAfter(old, e) == IF e # "nil" THEN e ELSE old

\* err != nil && !errors.Is(err, syscall.EINVAL): the callback returns true
StopsLoop(e) == e # "nil" /\ e # "EINVAL"

\* d.raw = append(d.raw, buf)
AppendRaw(raw, buf) == Append(raw, buf)

\* AppendMsg without the nil check: an empty Msg is appended for a rejected
\* record
AppendMsgNoNilCheck(msgs, r) == Append(msgs, IF r.kind = "msg" THEN r.msg ELSE ZeroMsg)

\* AppendMsg with the messages so far thrown away at a rejected record
AppendMsgResetOnNil(msgs, r) == IF r.kind = "msg" THEN Append(msgs, r.msg) ELSE <<>>

\* msg := parseData(buf); if msg == nil { continue }; d.msg = append(d.msg, *msg)
AppendMsg(msgs, r) == IF r.kind = "msg" THEN Append(msgs, r.msg) ELSE msgs

\* One pass of the for loop in the conn.Read callback.
ReadStep(c) ==
    /\ pc[c] = "read"
    /\ \E o \in ReadOutcomes(kmsg, pos[c], bufSize[c]) :
         LET r == parseData(o.buf)
         IN  /\ reads' = [reads EXCEPT ![c] = Append(@, [res |-> o.res, n |-> o.n, buf |-> o.buf])]
             /\ pos' = [pos EXCEPT ![c] = @ + o.adv]
             /\ syscallError' = [syscallError EXCEPT ![c] = SyscallErrorAfter(@, o.res)]
             /\ IF StopsLoop(o.res)
                THEN /\ pc' = [pc EXCEPT ![c] = "ret"]
                     /\ UNCHANGED <<d, file, closes>>
                ELSE IF fetchRaw[c]
                THEN /\ d' = [d EXCEPT ![c].raw = AppendRaw(@, o.buf)]
                     /\ UNCHANGED <<pc, file, closes>>
                ELSE IF r.kind = "panic"
                THEN \* the panic unwinds fetch; the deferred file.Close() runs
                     /\ pc' = [pc EXCEPT ![c] = "panic"]
                     /\ file' = [file EXCEPT ![c] = "closed"]
                     /\ closes' = [closes EXCEPT ![c] = @ + 1]
                     /\ UNCHANGED d
                ELSE /\ d' = [d EXCEPT ![c].msg = AppendMsg(@, r)]
                     /\ UNCHANGED <<pc, file, closes>>
    /\ UNCHANGED <<kmsg, fetchRaw, bufSize, err, decVars, objVars>>

\* ReturnedErr without the EAGAIN test
ReturnedErrUnfiltered(connErr, sysErr) == IF sysErr # "nil" THEN sysErr ELSE connErr

\* ReturnedErr with syscallError forgotten
ReturnedErrConnOnly(connErr, sysErr) == connErr

\* The error fetch returns: conn.Read's own, unless syscallError is set and
\* is not EAGAIN.
ReturnedErr(connErr, sysErr) ==
    IF sysErr # "nil" /\ sysErr # "EAGAIN" THEN sysErr ELSE connErr

\* The callback has returned true, so conn.Read returns nil; fetch returns
\* d and the error, and the deferred file.Close() runs.
Return(c) ==
    /\ pc[c] = "ret"
    /\ err' = [err EXCEPT ![c] = ReturnedErr("nil", syscallError[c])]
    /\ file' = [file EXCEPT ![c] = "closed"]
    /\ closes' = [closes EXCEPT ![c] = @ + 1]
    /\ pc' = [pc EXCEPT ![c] = "done"]
    /\ UNCHANGED <<kmsg, fetchRaw, bufSize, pos, d, syscallError, reads, decVars, objVars>>

\* ------------------------------------------------------------------------
\* fetch: specification
\* ------------------------------------------------------------------------

\* The longest ring buffer content explored.
MaxRecords == 2

\* `6,1,2,-;a\n`
RecText == <<"6", ",", "1", ",", "2", ",", "-", ";", "a", NL>>
\* `3,2,3,c;b\n a=b\n`
RecDev == <<"3", ",", "2", ",", "3", ",", "c", ";", "b", NL, " ", "a", "=", "b", NL>>
\* `junk`
RecJunk == <<"j", "u", "n", "k">>
\* `6,1,2,;a\n`
RecNoFlag == <<"6", ",", "1", ",", "2", ",", ";", "a", NL>>

KmsgRecords == {RecText, RecDev, RecJunk, RecNoFlag}

\* RecText fills a buffer of 10 bytes exactly; RecDev fits only the largest.
BufSizes == {10, 12, 17}

Logs == UNION {[1..n -> KmsgRecords] : n \in 0..MaxRecords}

DecIdle == data = <<>> /\ out = NilMsg /\ dpc = "idle"

\* &Dmesg{}
ZeroObj == [num |-> 0, msgTruncated |-> FALSE, bufSize |-> 0, msg |-> <<>>]
\* no call returned yet
NoRet == [op |-> "none"]

\* No Dmesg object is built while the fetch calls or parseData are exercised.
ObjIdle ==
    /\ dm = ZeroObj
    /\ num = 0
    /\ opc = "idle"
    /\ ofile = "none"
    /\ opos = 0
    /\ oreads = <<>>
    /\ ret = NoRet

Init ==
    /\ kmsg \in Logs
    /\ fetchRaw = (1 :> FALSE @@ 2 :> TRUE)
    /\ bufSize \in [Calls -> BufSizes]
    /\ pc = [c \in Calls |-> "open"]
    /\ file = [c \in Calls |-> "none"]
    /\ closes = [c \in Calls |-> 0]
    /\ pos = [c \in Calls |-> 0]
    /\ d = [c \in Calls |-> ZeroDmesg]
    /\ syscallError = [c \in Calls |-> "nil"]
    /\ err = [c \in Calls |-> "nil"]
    /\ reads = [c \in Calls |-> <<>>]
    /\ DecIdle
    /\ ObjIdle

Next ==
    \E c \in Calls :
        \/ OpenOk(c)
        \/ OpenFail(c)
        \/ ConnOk(c)
        \/ ConnFail(c)
        \/ ReadStep(c)
        \/ Return(c)

Spec == Init /\ [][Next]_vars

\* ------------------------------------------------------------------------
\* parseData on its own: specification
\* ------------------------------------------------------------------------

\* Every byte sequence of at most DecMaxLen bytes over DecAlphabet is given
\* to parseData, and so are the records put together below.
DecMaxLen == 5
DecAlphabet == {"6", ",", ";", NL, " ", "=", "-"}

ByteSeqs == UNION {[1..n -> DecAlphabet] : n \in 0..DecMaxLen}

\* 18446744073709551615 = 2^64 - 1, and 2^64
U64MaxDigits == <<"1","8","4","4","6","7","4","4","0","7","3","7","0","9","5","5","1","6","1","5">>
U64OverDigits == <<"1","8","4","4","6","7","4","4","0","7","3","7","0","9","5","5","1","6","1","6">>
\* -9223372036854775808 = -2^63, and 2^63
I64MinDigits == <<"-","9","2","2","3","3","7","2","0","3","6","8","5","4","7","7","5","8","0","8">>
I64OverDigits == <<"9","2","2","3","3","7","2","0","3","6","8","5","4","7","7","5","8","0","8">>
\* -9223372036854775809 = -2^63 - 1
I64UnderDigits == <<"-","9","2","2","3","3","7","2","0","3","6","8","5","4","7","7","5","8","0","9">>

Field0s == {<<"6">>, <<"1", "4">>, <<>>, <<"x">>, U64MaxDigits, U64OverDigits}
Field1s == {<<"1", "2", "3", "4">>, <<"0", "0", "7">>, <<>>, U64OverDigits,
            U64OverDigits \o <<"x">>}
Field2s == {<<"9", "9", "9", "9", "9">>, <<"-", "5">>, <<"+", "5">>, <<"5", "x">>,
            I64MinDigits, I64OverDigits, I64UnderDigits}
Field3s == {<<"-">>, <<"c">>, <<>>}
\* what follows the flags: nothing, an empty caller, a caller, a caller and
\* further fields
PrefixRests == {<<>>, <<",">>, <<",", "T", "1">>, <<",", "T", "1", ",", "x", ",", "7">>}
\* what follows the text: nothing, the newline, the newline and a device
\* info line
HeaderTails == {<<>>, <<NL>>, <<NL, " ", "a", "=", "b", NL>>}

HeaderRecords ==
    {f0 \o <<",">> \o f1 \o <<",">> \o f2 \o <<",">> \o f3 \o rest \o <<";", "h", "i">> \o tail :
        f0 \in Field0s, f1 \in Field1s, f2 \in Field2s, f3 \in Field3s,
        rest \in PrefixRests, tail \in HeaderTails}

\* what follows the text line
DeviceBlocks ==
    { <<" ", "a", "=", "b", NL>>,
      <<" ", "a", "=", "b", NL, " ", "a", "=", "c", NL>>,
      <<" ", "a", "=", "b", NL, " ", "k", "=", "v", NL, " ", "a", "=", "c", NL>>,
      <<"c", "=", "d", NL, " ", "a", "=", "b", NL>>,
      <<" ", "a", "=", "b", "=", "c", NL>>,
      <<"c", "=", "d", NL, " ", "a", "=", "b", NL, " ", "q", "=", "r", "=", "s", NL,
        " ", "a", "=", "c", NL, " ", "j", NL>>,
      <<" ", "j", "u", "n", "k", NL, " ", "k", "=", "v", NL>>,
      <<" ", "k", "1", "=", "v", "1", NL, "k", "2", "=", "v", "2", NL,
        " ", "j", NL, " ", "a", "n", "=", "x">>,
      <<" ", "a", "=", "b">>,
      <<NL>>,
      <<" ", "a", "=", "b", NL, NL>>,
      <<NUL>>,
      <<NUL, NUL>> }

DeviceRecords ==
    {<<"6", ",", "1", ",", "2", ",", "-", ",", "c", ";">> \o text \o <<NL>> \o block :
        text \in {<<>>, <<"h", "i">>}, block \in DeviceBlocks}

DecInputs == ByteSeqs \cup HeaderRecords \cup DeviceRecords

\* No fetch call runs while parseData is exercised on its own.
FetchIdle ==
    /\ kmsg = <<>>
    /\ fetchRaw = (1 :> FALSE @@ 2 :> TRUE)
    /\ bufSize = [c \in Calls |-> 0]
    /\ pc = [c \in Calls |-> "idle"]
    /\ file = [c \in Calls |-> "none"]
    /\ closes = [c \in Calls |-> 0]
    /\ pos = [c \in Calls |-> 0]
    /\ d = [c \in Calls |-> ZeroDmesg]
    /\ syscallError = [c \in Calls |-> "nil"]
    /\ err = [c \in Calls |-> "nil"]
    /\ reads = [c \in Calls |-> <<>>]

DecInit ==
    /\ data \in DecInputs
    /\ out = NilMsg
    /\ dpc = "input"
    /\ FetchIdle
    /\ ObjIdle

\* msg := parseData(data)
Decode ==
    /\ dpc = "input"
    /\ out' = parseData(data)
    /\ dpc' = "done"
    /\ UNCHANGED <<data, fetchVars, objVars>>

DecNext == Decode

DecSpec == DecInit /\ [][DecNext]_vars

\* ------------------------------------------------------------------------
\* Claims about parseData (checked under DecSpec)
\* ------------------------------------------------------------------------

Decoded == dpc = "done"

HasSemi(s) == \E i \in 1..Len(s) : s[i] = ";"
\* the first newline lies after the first `;`
HasTextLine(s) == HasSemi(s) /\ IndexByte(s, NL) > IndexByte(s, ";")
\* the comma-separated fields before the first `;`
PrefixFields(s) == Split(Slice(s, 0, IndexByte(s, ";")), ",")
\* the flags field is absent or has a first byte
FlagsPresent(s) == Len(PrefixFields(s)) >= 4 => Len(PrefixFields(s)[4]) > 0
\* the bytes strictly between the first `;` and the first newline
TextOf(s) == Slice(s, IndexByte(s, ";") + 1, IndexByte(s, NL))
\* the continuation lines: what follows the text line, without the record's
\* last byte, split at the newlines
ContinuationLines(s) == Split(Slice(s, IndexByte(s, NL) + 1, Len(s) - 1), NL)

\* C4: parseData never panics: whatever bytes it is given, it ends in a Msg
\* or in nil.
C4_DecoderNeverRaises == Decoded => out.kind \in {"msg", "nil"}

\* C5: a record that is exactly `prefix;text\n` (its first newline, after the
\* `;`, is its last byte; the flags field, when there is one, is not empty)
\* decodes to a Msg with that text and an empty DeviceInfo.
C5_TextOnlyRecordDecodes ==
    (Decoded /\ HasTextLine(data) /\ IndexByte(data, NL) = Len(data) - 1 /\ FlagsPresent(data))
        => /\ out.kind = "msg"
           /\ out.msg.Text = TextOf(data)
           /\ DOMAIN out.msg.DeviceInfo = {}

\* C7: a record without `;`, and a record with a `;` whose first newline is
\* absent or at or before the first `;`, makes parseData return nil.
C7_StructurallyInvalidIsNil ==
    (Decoded /\ ~HasTextLine(data)) => out.kind = "nil"

\* --- C6 ---

AllDigits(s) == Len(s) > 0 /\ \A i \in 1..Len(s) : s[i] \in DigitChars

RECURSIVE StripZeros(_)
\* the digits without leading zeros (at least one digit is kept)
StripZeros(s) == IF Len(s) > 1 /\ s[1] = "0" THEN StripZeros(Tail(s)) ELSE s

\* a <= b for digit strings without leading zeros
DigitsLeq(a, b) ==
    \/ Len(a) < Len(b)
    \/ /\ Len(a) = Len(b)
       /\ \/ a = b
          \/ \E i \in 1..Len(a) :
                /\ DigitVal(a[i]) < DigitVal(b[i])
                /\ \A j \in 1..(i - 1) : a[j] = b[j]

\* s is a decimal integer that fits a uint64
IsU64Decimal(s) == AllDigits(s) /\ DigitsLeq(StripZeros(s), U64MaxDigits)

\* the digits of a signed decimal
Magnitude(s) == IF Len(s) > 0 /\ s[1] \in {"+", "-"} THEN Tail(s) ELSE s
Negative(s) == Len(s) > 0 /\ s[1] = "-"
\* s is a decimal integer that fits an int64
IsI64Decimal(s) ==
    /\ AllDigits(Magnitude(s))
    /\ DigitsLeq(StripZeros(Magnitude(s)),
                 IF Negative(s) THEN Tail(I64MinDigits) ELSE <<"9","2","2","3","3","7","2","0","3","6","8","5","4","7","7","5","8","0","7">>)

DigitChar(n) ==
    CASE n = 0 -> "0" [] n = 1 -> "1" [] n = 2 -> "2" [] n = 3 -> "3" [] n = 4 -> "4"
      [] n = 5 -> "5" [] n = 6 -> "6" [] n = 7 -> "7" [] n = 8 -> "8" [] n = 9 -> "9"

\* a uint64 divided by ten: quotient and remainder, by long division
U64DivMod10(a) ==
    LET c1 == a[1]
        c2 == (c1 % 10) * LimbBase + a[2]
        c3 == (c2 % 10) * LimbBase + a[3]
        c4 == (c3 % 10) * LimbBase + a[4]
    IN  [quot |-> <<c1 \div 10, c2 \div 10, c3 \div 10, c4 \div 10>>, rem |-> c4 % 10]

RECURSIVE U64Digits(_)
\* the decimal digits of a uint64, without leading zeros
U64Digits(a) ==
    IF U64DivMod10(a).quot = U64Zero THEN <<DigitChar(U64DivMod10(a).rem)>>
    ELSE U64Digits(U64DivMod10(a).quot) \o <<DigitChar(U64DivMod10(a).rem)>>

\* the prefix is L,S,T,F,C (and perhaps more), L, S, T in range, F not empty
WellFormedPrefix(s) ==
    /\ HasSemi(s)
    /\ Len(PrefixFields(s)) >= 5
    /\ IsU64Decimal(PrefixFields(s)[1])
    /\ IsU64Decimal(PrefixFields(s)[2])
    /\ IsI64Decimal(PrefixFields(s)[3])
    /\ Len(PrefixFields(s)[4]) > 0

\* C6: for an accepted record with prefix L,S,T,F,C[,...]: Level is L & 7
\* (below 8), Facility is L & ~7 (its low three bits zero, Level + Facility
\* = L), Seq = S, TsUsec = T, IsFragment = (F[0] != '-'), Caller = C, Text is
\* the bytes between the first `;` and the first newline; fields after C
\* change nothing.
C6_PrefixFieldsDecoded ==
    (Decoded /\ out.kind = "msg" /\ WellFormedPrefix(data)) =>
        LET f == PrefixFields(data)
            m == out.msg
        IN  /\ m.Level[1] = 0 /\ m.Level[2] = 0 /\ m.Level[3] = 0
            /\ m.Level[4] \in 0..7
            /\ m.Facility[4] % 8 = 0
            /\ U64Digits([m.Facility EXCEPT ![4] = @ + m.Level[4]]) = StripZeros(f[1])
            /\ U64Digits(m.Seq) = StripZeros(f[2])
            /\ U64Digits(m.TsUsec.mag) = StripZeros(Magnitude(f[3]))
            /\ m.TsUsec.neg = (Negative(f[3]) /\ StripZeros(Magnitude(f[3])) # <<"0">>)
            /\ m.IsFragment = (f[4][1] # "-")
            /\ m.Caller = f[5]
            /\ m.Text = TextOf(data)

\* A record with a facility, a negative timestamp and fields after the
\* caller has been decoded.
C6_Witness ==
    /\ Decoded /\ out.kind = "msg" /\ WellFormedPrefix(data)
    /\ Len(PrefixFields(data)) > 5
    /\ PrefixFields(data)[1] = <<"1", "4">>
    /\ Negative(PrefixFields(data)[3])
    /\ out.msg.Facility = <<0, 0, 0, 8>>

\* --- C17 ---

RECURSIVE DigitPrefix(_)
\* the digits s starts with
DigitPrefix(s) ==
    IF Len(s) > 0 /\ s[1] \in DigitChars THEN <<s[1]>> \o DigitPrefix(Tail(s)) ELSE <<>>

\* the digits s starts with exceed 2^64 - 1
Overflows(s) == Len(DigitPrefix(s)) > 0 /\ ~IsU64Decimal(DigitPrefix(s))
\* s is empty or has a byte that is no digit, before its digits overflow
SyntaxFails(s) == ~AllDigits(s) /\ ~Overflows(s)
\* the signed field s lies above 2^63 - 1, below -2^63
AboveI64(s) ==
    ~Negative(s) /\ (Overflows(Magnitude(s)) \/ (AllDigits(Magnitude(s)) /\ ~IsI64Decimal(s)))
BelowI64(s) ==
    Negative(s) /\ (Overflows(Magnitude(s)) \/ (AllDigits(Magnitude(s)) /\ ~IsI64Decimal(s)))

I64Zero == [neg |-> FALSE, mag |-> U64Zero]
\* 1<<63 - 1 and -1<<63
I64Max == [neg |-> FALSE, mag |-> <<LimbBase \div 2 - 1, LimbBase - 1, LimbBase - 1, LimbBase - 1>>]
I64Min == [neg |-> TRUE, mag |-> U64SignBit]

\* an accepted record and the fields of its prefix
Accepted == Decoded /\ out.kind = "msg" /\ HasSemi(data)

\* C17 as stated: in an accepted record, a prefix field 0, 1 or 2 that is not
\* a decimal integer of its 64-bit type (empty, not numeric, or out of
\* range) decodes to 0: Level = 0 and Facility = 0, Seq = 0, TsUsec = 0.
C17_FailedFieldIsZero ==
    Accepted =>
        LET f == PrefixFields(data)
            m == out.msg
        IN  /\ (Len(f) >= 1 /\ ~IsU64Decimal(f[1])) => (m.Level = U64Zero /\ m.Facility = U64Zero)
            /\ (Len(f) >= 2 /\ ~IsU64Decimal(f[2])) => m.Seq = U64Zero
            /\ (Len(f) >= 3 /\ ~IsI64Decimal(f[3])) => m.TsUsec = I64Zero

\* C17 amended: in an accepted record, a prefix field 0, 1 or 2 that is empty
\* or has a byte that is no digit (before its digits overflow 64 bits)
\* decodes to 0, and one whose digits are out of the range of its type
\* decodes to the bound of the type it passed: 2^64 - 1 for fields 0 and 1
\* (Level = 7 and Facility = 2^64 - 8, Seq = 2^64 - 1), 2^63 - 1 or -2^63 for
\* field 2; the record is accepted either way.
C17_FailedFieldZeroOrClamped ==
    Accepted =>
        LET f == PrefixFields(data)
            m == out.msg
        IN  /\ (Len(f) >= 1 /\ SyntaxFails(f[1])) => (m.Level = U64Zero /\ m.Facility = U64Zero)
            /\ (Len(f) >= 1 /\ Overflows(f[1])) =>
                    (m.Level = levelMask /\ m.Facility = U64Not(levelMask))
            /\ (Len(f) >= 2 /\ SyntaxFails(f[2])) => m.Seq = U64Zero
            /\ (Len(f) >= 2 /\ Overflows(f[2])) => m.Seq = U64Max
            /\ (Len(f) >= 3 /\ SyntaxFails(Magnitude(f[3]))) => m.TsUsec = I64Zero
            /\ (Len(f) >= 3 /\ AboveI64(f[3])) => m.TsUsec = I64Max
            /\ (Len(f) >= 3 /\ BelowI64(f[3])) => m.TsUsec = I64Min

\* An accepted record whose field 0 is 2^64, whose field 1 is empty and whose
\* field 2 is 2^63: Level 7, Seq 0, TsUsec 2^63 - 1.
C17_Witness ==
    /\ Accepted
    /\ Len(PrefixFields(data)) >= 4
    /\ PrefixFields(data)[1] = U64OverDigits
    /\ PrefixFields(data)[2] = <<>>
    /\ PrefixFields(data)[3] = I64OverDigits
    /\ out.msg.Level = levelMask
    /\ out.msg.Seq = U64Zero
    /\ out.msg.TsUsec = I64Max

\* --- C8 ---

CountByte(s, b) == Cardinality({i \in 1..Len(s) : s[i] = b})
\* the line starts with a space and contains exactly one `=`
Qualifies(l) == Len(l) > 0 /\ l[1] = " " /\ CountByte(l, "=") = 1
KeyOf(l) == Slice(l, 0, IndexByte(l, "="))
ValueOf(l) == Slice(l, IndexByte(l, "=") + 1, Len(l))

\* the record has a text line, something after it, a usable flags field and
\* no empty continuation line
HasContinuation(s) ==
    /\ HasTextLine(s) /\ IndexByte(s, NL) < Len(s) - 1
    /\ FlagsPresent(s)
    /\ \A i \in 1..Len(ContinuationLines(s)) : Len(ContinuationLines(s)[i]) > 0

\* C8: a record with continuation lines is accepted whatever those lines
\* are; DeviceInfo has an entry exactly for the lines that start with a
\* space and contain exactly one `=`, and a key that occurs on several such
\* lines has the value of the last of them.
C8_DeviceInfoEntries ==
    (Decoded /\ HasContinuation(data)) =>
        LET lines == ContinuationLines(data)
            good  == {i \in 1..Len(lines) : Qualifies(lines[i])}
        IN  /\ out.kind = "msg"
            /\ DOMAIN out.msg.DeviceInfo = {KeyOf(lines[i]) : i \in good}
            /\ \A i \in good :
                  (\A j \in good : j > i => KeyOf(lines[j]) # KeyOf(lines[i]))
                      => out.msg.DeviceInfo[KeyOf(lines[i])] = ValueOf(lines[i])

\* A record with a line without a leading space, a line with two `=`, a line
\* without `=` and a key given twice has been decoded.
C8_Witness ==
    /\ Decoded /\ HasContinuation(data) /\ out.kind = "msg"
    /\ LET lines == ContinuationLines(data)
       IN  /\ \E i \in 1..Len(lines) : lines[i][1] # " "
           /\ \E i \in 1..Len(lines) : lines[i][1] = " " /\ CountByte(lines[i], "=") = 2
           /\ \E i \in 1..Len(lines) : lines[i][1] = " " /\ CountByte(lines[i], "=") = 0
           /\ \E i, j \in 1..Len(lines) :
                 /\ i < j /\ Qualifies(lines[i]) /\ Qualifies(lines[j])
                 /\ KeyOf(lines[i]) = KeyOf(lines[j]) /\ ValueOf(lines[i]) # ValueOf(lines[j])
                 /\ out.msg.DeviceInfo[KeyOf(lines[i])] = ValueOf(lines[j])

\* ------------------------------------------------------------------------
\* Claims about fetch (checked under Spec)
\* ------------------------------------------------------------------------

Returned(c) == pc[c] = "done" /\ Len(reads[c]) > 0
LastRead(c) == reads[c][Len(reads[c])]
\* the reads of call c that had the given outcome
ReadsWith(c, res) == {i \in 1..Len(reads[c]) : reads[c][i].res = res}
\* the record a successful read delivered
Delivered(rd) == Slice(rd.buf, 0, rd.n)
\* what the caller of call c gets
Result(c) == IF fetchRaw[c] THEN d[c].raw ELSE d[c].msg

\* The calls tell their caller of a too small buffer through the returned
\* error, syscall.EINVAL (the doc comments of Dmesg and RawDmesg); fetch
\* returns nothing else that could.
TruncationReported(c) == err[c] = "EINVAL"

\* every record a successful read of call c delivered is in the result
DeliveredKept(c) ==
    \A i \in ReadsWith(c, "nil") :
        IF fetchRaw[c]
        THEN \E j \in 1..Len(d[c].raw) :
                Slice(d[c].raw[j], 0, reads[c][i].n) = Delivered(reads[c][i])
        ELSE parseData(reads[c][i].buf).kind = "msg" =>
                \E j \in 1..Len(d[c].msg) : d[c].msg[j] = parseData(reads[c][i].buf).msg

\* C1: a call whose reads end with EAGAIN and include an EINVAL read tells
\* its caller of the truncation, returns no other error, and keeps every
\* record its successful reads delivered.
C1_TruncationReported ==
    \A c \in Calls :
        (Returned(c) /\ LastRead(c).res = "EAGAIN" /\ ReadsWith(c, "EINVAL") # {}) =>
            /\ TruncationReported(c)
            /\ err[c] \in {"nil", "EINVAL"}
            /\ DeliveredKept(c)

\* C10: a call one of whose reads failed with EINVAL returns the error EINVAL.
C10_EinvalReturned ==
    \A c \in Calls :
        (Returned(c) /\ ReadsWith(c, "EINVAL") # {}) => err[c] = "EINVAL"

\* the reads of call c are k successful reads, of records parseData accepts
\* when the call decodes them, and then a fatal one
OksThenFatal(c) ==
    /\ Returned(c)
    /\ LastRead(c).res \in FatalErrnos
    /\ \A i \in 1..(Len(reads[c]) - 1) :
          /\ reads[c][i].res = "nil"
          /\ ~fetchRaw[c] => parseData(reads[c][i].buf).kind = "msg"

\* C2: when the first k reads succeed and the next fails fatally, the call
\* returns that error and exactly the k records, in the order read.
C2_PartialResultOnFatal ==
    \A c \in Calls :
        OksThenFatal(c) =>
            /\ err[c] = LastRead(c).res
            /\ Len(Result(c)) = Len(reads[c]) - 1
            /\ \A i \in 1..(Len(reads[c]) - 1) :
                  IF fetchRaw[c]
                  THEN Slice(d[c].raw[i], 0, Len(kmsg[i])) = kmsg[i]
                  ELSE d[c].msg[i] = parseData(reads[c][i].buf).msg

\* A decoding call has returned two messages and the error of its third read.
C2_Witness ==
    /\ OksThenFatal(1) /\ Len(reads[1]) = 3
    /\ Len(d[1].msg) = 2 /\ d[1].msg[1] # d[1].msg[2]
    /\ err[1] = "EPIPE"

C9_ParsedCountIsRawMinusRejected ==
    (Returned(1) /\ Returned(2) /\ reads[1] = reads[2]) =>
        Len(d[1].msg) =
            Len(d[2].raw)
              - Cardinality({i \in 1..Len(d[2].raw) : parseData(d[2].raw[i]).kind = "nil"})

\* Both calls have returned after the same reads, of a record parseData
\* rejects and of one it accepts.
C9_Witness ==
    /\ Returned(1) /\ Returned(2) /\ reads[1] = reads[2]
    /\ Len(d[2].raw) = 2 /\ Len(d[1].msg) = 1
    /\ ReadsWith(1, "nil") = {1, 2}

\* --- C11 ---

\* C11: a call whose os.OpenFile or file.SyscallConn failed has returned that
\* error, no message and no raw record, and has issued no read; nothing is
\* read on a handle that was never opened.
C11_AcquireFailureReturnsAtOnce ==
    \A c \in Calls :
        /\ (pc[c] = "done" /\ file[c] = "none") =>
              err[c] \in OpenErrnos /\ d[c] = ZeroDmesg /\ reads[c] = <<>>
        /\ (pc[c] = "done" /\ err[c] \in ConnErrnos) =>
              d[c] = ZeroDmesg /\ reads[c] = <<>>
        /\ file[c] = "none" => reads[c] = <<>> /\ pc[c] \in {"open", "done"}

\* Call 1 could not open the device and call 2 could not get its raw
\* connection; both have returned.
C11_Witness ==
    /\ pc[1] = "done" /\ file[1] = "none" /\ err[1] \in OpenErrnos
    /\ pc[2] = "done" /\ file[2] = "closed" /\ err[2] \in ConnErrnos

\* --- C12 ---

\* C12: a call that opened the device and has ended has closed it exactly
\* once, whichever way it ended; the device is never closed twice, and a
\* read is issued only on an open handle.
C12_ClosedExactlyOnce ==
    /\ [](\A c \in Calls :
            /\ closes[c] <= 1
            /\ (closes[c] = 1) = (file[c] = "closed")
            /\ (pc[c] \in {"done", "panic"} /\ file[c] # "none") => closes[c] = 1)
    /\ [][\A c \in Calls : reads'[c] # reads[c] => file[c] = "open"]_vars

\* One call has ended after a too small read and EAGAIN, the other on a
\* fatal read error; both have closed the device.
C12_Witness ==
    /\ Returned(1) /\ LastRead(1).res = "EAGAIN" /\ ReadsWith(1, "EINVAL") # {}
    /\ Returned(2) /\ LastRead(2).res \in FatalErrnos
    /\ closes = [c \in Calls |-> 1]

\* --- C13 ---

RECURSIVE BuffersKept(_)
\* the buffers of the reads that did not end the loop, in the order read
BuffersKept(rds) ==
    IF rds = <<>> THEN <<>>
    ELSE LET front == BuffersKept(SubSeq(rds, 1, Len(rds) - 1))
             last  == rds[Len(rds)]
         IN  IF last.res \in {"nil", "EINVAL"} THEN Append(front, last.buf) ELSE front

RECURSIVE MessagesOf(_)
\* the messages of the buffers parseData makes a Msg of, in order
MessagesOf(bufs) ==
    IF bufs = <<>> THEN <<>>
    ELSE LET front == MessagesOf(SubSeq(bufs, 1, Len(bufs) - 1))
             r     == parseData(bufs[Len(bufs)])
         IN  IF r.kind = "msg" THEN Append(front, r.msg) ELSE front

\* what call c has accumulated, told from its own reads alone
OwnDmesg(c) ==
    [raw |-> IF fetchRaw[c] THEN BuffersKept(reads[c]) ELSE <<>>,
     msg |-> IF fetchRaw[c] THEN <<>> ELSE MessagesOf(BuffersKept(reads[c]))]

\* the variables of call c
CallState(c) ==
    <<pc[c], file[c], closes[c], pos[c], d[c], syscallError[c], err[c], reads[c]>>

\* C13: whatever the interleaving, what a call has accumulated and the error
\* it returns follow from its own reads alone (a call that has read nothing
\* has an empty result, whatever the other call has done), and a step of one
\* call changes nothing of the other.
C13_CallsShareNoState ==
    /\ [](\A c \in Calls :
            /\ d[c] = OwnDmesg(c)
            /\ Returned(c) =>
                  err[c] = IF LastRead(c).res \in FatalErrnos THEN LastRead(c).res ELSE "nil")
    /\ [][\A c \in Calls : CallState(c)' # CallState(c) =>
              \A o \in Calls \ {c} : CallState(o)' = CallState(o)]_vars

\* Both calls have returned a result that is not empty, after different
\* reads of the same two records.
C13_Witness ==
    /\ Returned(1) /\ Returned(2)
    /\ Len(d[1].msg) = 2 /\ Len(d[2].raw) = 1
    /\ bufSize[1] # bufSize[2] /\ reads[1] # reads[2]
    /\ LastRead(1).res = "EAGAIN" /\ LastRead(2).res \in FatalErrnos

\* --- C14 ---

IsKept(rd) == rd.res \in {"nil", "EINVAL"}
IsOk(rd) == rd.res = "nil"

RECURSIVE DeliveredOf(_)
\* bytes[0:N] of each read, in order
DeliveredOf(rds) ==
    IF rds = <<>> THEN <<>> ELSE <<Delivered(Head(rds))>> \o DeliveredOf(Tail(rds))

\* C14: what a successful read of N bytes hands on is bytes[0:N]: the raw
\* element of a successful read is the delivered record, N bytes long, and
\* the messages are those parseData makes of the delivered records.
C14_RecordIsFirstNBytes ==
    \A c \in Calls :
        LET kept == SelectSeq(reads[c], IsKept)
        IN  IF fetchRaw[c]
            THEN \A j \in 1..Len(d[c].raw) :
                    (j <= Len(kept) /\ IsOk(kept[j])) =>
                        /\ Len(d[c].raw[j]) = kept[j].n
                        /\ d[c].raw[j] = Delivered(kept[j])
            ELSE d[c].msg = MessagesOf(DeliveredOf(kept))

\* --- C15 ---

\* C15: in raw mode the result is the records of the successful reads, in
\* the order read: as many elements as successful reads, element j starting
\* with the record of the j-th successful read.
C15_RawResultIsSuccessfulReads ==
    \A c \in Calls :
        fetchRaw[c] =>
            LET ok == SelectSeq(reads[c], IsOk)
            IN  /\ Len(d[c].raw) = Len(ok)
                /\ \A j \in 1..Len(ok) :
                      Slice(d[c].raw[j], 0, ok[j].n) = Delivered(ok[j])

\* --- C16 ---

\* a successful read of a record parseData rejects
IsRejected(rd) == rd.res = "nil" /\ parseData(rd.buf).kind = "nil"
NotRejected(rd) == ~IsRejected(rd)

\* C16: in the decoding call, the read of a record parseData rejects leaves
\* the messages, syscallError, the error and the file as they were and the
\* loop running; the messages are at all times those the call would have
\* without its rejected reads.
C16_RejectedRecordDropped ==
    /\ [][\A c \in Calls :
            (/\ ~fetchRaw[c]
             /\ Len(reads'[c]) = Len(reads[c]) + 1
             /\ IsRejected(reads'[c][Len(reads'[c])]))
            => /\ d'[c] = d[c]
               /\ syscallError'[c] = syscallError[c]
               /\ err'[c] = err[c]
               /\ file'[c] = file[c]
               /\ pc'[c] = "read"]_vars
    /\ [](\A c \in Calls :
            ~fetchRaw[c] =>
                d[c].msg = MessagesOf(BuffersKept(SelectSeq(reads[c], NotRejected))))

\* The decoding call has read a record parseData rejects and then one it
\* accepts, and holds the message of the second.
C16_Witness ==
    /\ Len(reads[1]) = 2
    /\ IsRejected(reads[1][1])
    /\ parseData(reads[1][2].buf).kind = "msg"
    /\ d[1].msg = <<parseData(reads[1][2].buf).msg>>
    /\ pc[1] = "read"

\* --- C18 ---

\* C18: after a read that succeeds or returns EINVAL the loop goes on to
\* another read; the first read that returns EAGAIN or another error is the
\* last one, after which the call closes the device and returns; the
\* returned error is not nil only when that last read was fatal.
C18_LoopOrder ==
    \A c \in Calls :
        Len(reads[c]) > 0 =>
            /\ \A i \in 1..(Len(reads[c]) - 1) : IsKept(reads[c][i])
            /\ IsKept(LastRead(c)) => pc[c] = "read"
            /\ ~IsKept(LastRead(c)) => pc[c] \in {"ret", "done"}
            /\ (pc[c] = "done" /\ err[c] # "nil") => LastRead(c).res \in FatalErrnos

\* --- C19 ---

\* a step of call c
CallStep(c) ==
    OpenOk(c) \/ OpenFail(c) \/ ConnOk(c) \/ ConnFail(c) \/ ReadStep(c) \/ Return(c)

\* C19: a call that has not returned can take a step (the steps of a call
\* are bounded by the records in the ring buffer, so it returns), and after
\* an EAGAIN read it does not read again.
C19_CallReturns ==
    \A c \in Calls :
        /\ pc[c] = "done" \/ ENABLED CallStep(c)
        /\ (Len(reads[c]) > 0 /\ LastRead(c).res = "EAGAIN") => pc[c] \in {"ret", "done"}

\* ------------------------------------------------------------------------
\* The Dmesg object (NewDmesg, FetchRaw, FetchText)
\* ------------------------------------------------------------------------

\* parseData of the object's file: the same steps, on a msgElem, which also
\* keeps the bytes it was made from (msg.Raw = data)
parseDataElem(buf) ==
    LET r == parseData(buf)
    IN  IF r.kind = "msg" THEN SomeMsg(r.msg @@ [Raw |-> buf]) ELSE r

\* the verbs %d and %t of fmt.Sprintf
FormatUint(a) == U64Digits(a)
FormatInt(t) == IF t.neg THEN <<"-">> \o U64Digits(t.mag) ELSE U64Digits(t.mag)
FormatBool(b) == IF b THEN <<"t", "r", "u", "e">> ELSE <<"f", "a", "l", "s", "e">>

\* the orders in which range may visit the keys of a map
RangeOrders(m) ==
    {p \in [1..Cardinality(DOMAIN m) -> DOMAIN m] :
        \A i, j \in 1..Cardinality(DOMAIN m) : i # j => p[i] # p[j]}

RECURSIVE DeviceInfoText(_, _, _)
\* res += fmt.Sprintf("\n %s=%s", k, v) for the keys p[i], p[i+1], ...
DeviceInfoText(m, p, i) ==
    IF i > Cardinality(DOMAIN m) THEN <<>>
    ELSE <<NL, " ">> \o p[i] \o <<"=">> \o m[p[i]] \o DeviceInfoText(m, p, i + 1)

\* parseMsg(msg): the strings it can return, one for each order of the map
parseMsg(msg) ==
    {<<"<">> \o FormatUint(msg.Level) \o <<">", "[">> \o FormatUint(msg.Facility)
        \o <<"]", "[">> \o FormatUint(msg.Seq) \o <<"]", "[">> \o FormatInt(msg.TsUsec)
        \o <<"]", "[">> \o msg.Caller \o <<"]", "[">> \o FormatBool(msg.IsFragment)
        \o <<"]", " ">> \o msg.Text \o DeviceInfoText(msg.DeviceInfo, p, 1) :
        p \in RangeOrders(msg.DeviceInfo)}

\* os.OpenFile in fetchRawMsg
RawMsgOpenOk ==
    /\ opc = "open"
    /\ opc' = "conn"
    /\ ofile' = "open"
    /\ UNCHANGED <<fetchVars, decVars, dm, num, opos, oreads, ret>>

\* os.OpenFile fails: fetchRawMsg prints and returns, NewDmesg returns d
RawMsgOpenFail ==
    /\ opc = "open"
    /\ opc' = "built"
    /\ UNCHANGED <<fetchVars, decVars, dm, num, ofile, opos, oreads, ret>>

\* file.SyscallConn, and the entry of the callback of conn.Read
RawMsgConnOk ==
    /\ opc = "conn"
    /\ dm' = [dm EXCEPT !.msgTruncated = FALSE]
    /\ num' = 0
    /\ opc' = "read"
    /\ UNCHANGED <<fetchVars, decVars, ofile, opos, oreads, ret>>

\* file.SyscallConn fails: fetchRawMsg prints, closes the file and returns
RawMsgConnFail ==
    /\ opc = "conn"
    /\ opc' = "built"
    /\ ofile' = "closed"
    /\ UNCHANGED <<fetchVars, decVars, dm, num, opos, oreads, ret>>

\* num++ after the append, which a nil msg skips
NumAfterCountingEveryRead(n, r) == n + 1
NumAfter(n, r) == IF r.kind = "msg" THEN n + 1 ELSE n

\* One pass of the loop of the callback: EINVAL sets msgTruncated and goes
\* on to parseData, another error stores num and ends the loop (the file is
\* closed and NewDmesg returns d); a msg that is not nil is appended.
RawMsgRead ==
    /\ opc = "read"
    /\ \E o \in ReadOutcomes(kmsg, opos, dm.bufSize) :
          LET r     == parseDataElem(o.buf)
              trunc == dm.msgTruncated \/ o.res = "EINVAL"
          IN  /\ oreads' = Append(oreads, [res |-> o.res, n |-> o.n, buf |-> o.buf])
              /\ opos' = opos + o.adv
              /\ IF o.res \notin {"nil", "EINVAL"}
                 THEN /\ dm' = [dm EXCEPT !.num = num]
                      /\ num' = num
                      /\ opc' = "built"
                      /\ ofile' = "closed"
                 ELSE IF r.kind = "panic"
                 THEN /\ dm' = [dm EXCEPT !.msgTruncated = trunc]
                      /\ num' = num
                      /\ opc' = "panic"
                      /\ ofile' = "closed"
                 ELSE /\ dm' = [dm EXCEPT !.msgTruncated = trunc,
                                          !.msg = IF r.kind = "msg" THEN Append(@, r.msg) ELSE @]
                      /\ num' = NumAfter(num, r)
                      /\ opc' = "read"
                      /\ ofile' = ofile
    /\ UNCHANGED <<fetchVars, decVars, ret>>

\* the error of FetchText and FetchRaw
TruncatedErr == IF dm.msgTruncated THEN "ENOBUFS" ELSE "nil"

Min(a, b) == IF a < b THEN a ELSE b

\* what d.FetchText(n, reverse) can return: d.msg[i] of an index past the
\* slice panics
FetchTextReturns(op, n) ==
    LET k == Min(dm.num, n)
    IN  IF k > Len(dm.msg)
        THEN {[op |-> op, arg |-> n, panic |-> TRUE, res |-> <<>>, err |-> "nil"]}
        ELSE {[op |-> op, arg |-> n, panic |-> FALSE, res |-> res, err |-> TruncatedErr] :
                res \in {t \in [1..k -> UNION {parseMsg(dm.msg[i]) : i \in 1..k}] :
                            \A i \in 1..k : t[i] \in parseMsg(dm.msg[i])}}

FetchText(n, reverse) ==
    /\ opc = "built"
    /\ ret' \in FetchTextReturns("FetchText", n)
    /\ UNCHANGED <<fetchVars, decVars, dm, num, opc, ofile, opos, oreads>>

FetchTextAll(reverse) ==
    /\ opc = "built"
    /\ ret' \in FetchTextReturns("FetchTextAll", dm.num)
    /\ UNCHANGED <<fetchVars, decVars, dm, num, opc, ofile, opos, oreads>>

FetchRaw ==
    /\ opc = "built"
    /\ ret' = [op |-> "FetchRaw", arg |-> 0, panic |-> FALSE, res |-> dm.msg, err |-> TruncatedErr]
    /\ UNCHANGED <<fetchVars, decVars, dm, num, opc, ofile, opos, oreads>>

SetBufSize(size) ==
    /\ opc = "built"
    /\ dm' = [dm EXCEPT !.bufSize = size]
    /\ UNCHANGED <<fetchVars, decVars, num, opc, ofile, opos, oreads, ret>>

\* NewDmesg has made d and set d.bufSize. defaultBufSize, 1 << 14, is scaled
\* down to the sizes of BufSizes, as the records of the ring buffer are, so
\* that a record can fill or exceed the buffer.
ObjInit ==
    /\ kmsg \in Logs
    /\ fetchRaw = (1 :> FALSE @@ 2 :> TRUE)
    /\ bufSize = [c \in Calls |-> 0]
    /\ pc = [c \in Calls |-> "idle"]
    /\ file = [c \in Calls |-> "none"]
    /\ closes = [c \in Calls |-> 0]
    /\ pos = [c \in Calls |-> 0]
    /\ d = [c \in Calls |-> ZeroDmesg]
    /\ syscallError = [c \in Calls |-> "nil"]
    /\ err = [c \in Calls |-> "nil"]
    /\ reads = [c \in Calls |-> <<>>]
    /\ DecIdle
    /\ dm \in {[ZeroObj EXCEPT !.bufSize = b] : b \in BufSizes}
    /\ num = 0
    /\ opc = "open"
    /\ ofile = "none"
    /\ opos = 0
    /\ oreads = <<>>
    /\ ret = NoRet

ObjNext ==
    \/ RawMsgOpenOk
    \/ RawMsgOpenFail
    \/ RawMsgConnOk
    \/ RawMsgConnFail
    \/ RawMsgRead
    \/ \E n \in 0..(MaxRecords + 1), reverse \in BOOLEAN : FetchText(n, reverse)
    \/ \E reverse \in BOOLEAN : FetchTextAll(reverse)
    \/ FetchRaw
    \/ \E size \in BufSizes : SetBufSize(size)

ObjSpec == ObjInit /\ [][ObjNext]_vars

\* --- C20 ---

ObjBuilt == opc = "built"
\* a read of the object's fetch failed with EINVAL
SomeTooSmall == \E i \in 1..Len(oreads) : oreads[i].res = "EINVAL"

RECURSIVE ElemsOf(_)
\* the msgElems of the reads that went on to parseData and gave one
ElemsOf(rds) ==
    IF rds = <<>> THEN <<>>
    ELSE LET r == parseDataElem(Head(rds).buf)
         IN  (IF IsKept(Head(rds)) /\ r.kind = "msg" THEN <<r.msg>> ELSE <<>>)
                 \o ElemsOf(Tail(rds))

\* C20: for the object NewDmesg returned: msgTruncated tells whether a read
\* failed with EINVAL, num is the number of stored messages, which are those
\* of the records read; FetchRaw returns them and FetchText(n) the strings
\* of the first min(n, stored) of them, without indexing past them, and each
\* returns ENOBUFS exactly when a read failed with EINVAL.
C20_ObjectReportsTruncation ==
    ObjBuilt =>
        /\ dm.msgTruncated = SomeTooSmall
        /\ dm.num = Len(dm.msg)
        /\ dm.msg = ElemsOf(oreads)
        /\ ret.op # "none" =>
              /\ ~ret.panic
              /\ ret.err = (IF SomeTooSmall THEN "ENOBUFS" ELSE "nil")
        /\ ret.op = "FetchRaw" => ret.res = dm.msg
        /\ ret.op \in {"FetchText", "FetchTextAll"} =>
              /\ Len(ret.res) = Min(ret.arg, Len(dm.msg))
              /\ \A i \in 1..Len(ret.res) : ret.res[i] \in parseMsg(dm.msg[i])

\* The object has stored one message and lost a record to EINVAL, and
\* FetchText was asked for more strings than there are messages.
C20_Witness ==
    /\ ObjBuilt
    /\ SomeTooSmall
    /\ Len(dm.msg) = 1
    /\ ret.op = "FetchText"
    /\ ret.arg > Len(dm.msg)
    /\ Len(ret.res) = 1
    /\ ret.err = "ENOBUFS"

=============================================================================
